---- MODULE Spec2Model ----
(***************************************************************************)
(* A model of rocket_oauth2's core (src/src/core.rs): building OAuthConfig *)
(* from Rocket configuration, the OAuth2 fairing, get_redirect, the login  *)
(* route and the redirect (callback) route, together with the parts of the *)
(* environment the handlers act on: each browser's cookie store and the    *)
(* requests in flight.                                                     *)
(*                                                                         *)
(* The crate is written against Rocket 0.4 (Cookies, handler::Outcome,     *)
(* AdHoc::on_attach).  Where the handlers call into Rocket, the model      *)
(* follows Rocket 0.4's documented behaviour:                              *)
(*   - Cookies::add_private seals the value and defaults Path to "/";      *)
(*   - Cookies::get_private returns the unsealed cookie, or None when the  *)
(*     cookie is absent or does not authenticate;                          *)
(*   - Cookies::remove(c) queues a removal cookie with c's own path and    *)
(*     domain and sets no default path (remove_private would);             *)
(*   - a handler Outcome::Failure(status) is answered by the catcher for   *)
(*     that status, after the request's cookie delta has been reset, so no *)
(*     cookie change made by the failed handler is sent;                   *)
(*   - Result<R, E: Debug> responds as R on Ok and fails with 500 on Err.  *)
(* A browser stores a cookie that carries no Path attribute under the      *)
(* default-path of the request URI (RFC 6265, 5.1.4 and 5.3).              *)
(***************************************************************************)
EXTENDS Naturals, Integers, Sequences, FiniteSets, Bags, TLC

(***************************************************************************)
(* Bounds of the model.                                                    *)
(***************************************************************************)
NumBrowsers == 2
MaxInFlight == 2
MaxItems == 2

STATE_COOKIE_NAME == "rocket_oauth2_state"

Browsers == 1..NumBrowsers

(***************************************************************************)
(* Results and options.                                                    *)
(***************************************************************************)
Ok(v) == [ok |-> TRUE, val |-> v]
Err(e) == [ok |-> FALSE, err |-> e]
None == "None"

(***************************************************************************)
(* Rocket configuration values (rocket::config::Value, a TOML value).      *)
(* A table is a set of <<key, value>> pairs with distinct keys.            *)
(***************************************************************************)
Str(x) == [t |-> "string", s |-> x, tab |-> {}]
Integer(x) == [t |-> "integer", s |-> x, tab |-> {}]
Tab(ps) == [t |-> "table", s |-> "", tab |-> ps]
Absent == [t |-> "absent", s |-> "", tab |-> {}]

\* Table::get: the value under key, Absent for Option::None.
TableGet(table, key) ==
    IF \E p \in table : p[1] = key
    THEN (CHOOSE p \in table : p[1] = key)[2]
    ELSE Absent

Missing(key) == [kind |-> "Missing", key |-> key]
BadType(key, expected) == [kind |-> "BadType", key |-> key, expected |-> expected]

\* A bug get_config_string could have: any present value is rendered as text.
GetConfigStringLax(table, key) ==
    LET value == TableGet(table, key)
    IN  IF value.t = "absent" THEN Err(Missing(key)) ELSE Ok(value.s)

get_config_string(table, key) ==
    LET value == TableGet(table, key)
    IN  IF value.t = "absent" THEN Err(Missing(key))
        ELSE IF value.t # "string" THEN Err(BadType(key, "string"))
        ELSE Ok(value.s)

(***************************************************************************)
(* Providers.                                                              *)
(***************************************************************************)
Provider(a, tk) == [auth_uri |-> a, token_uri |-> tk]

KnownProviders ==
    { <<"Discord", Provider("https://discordapp.com/api/oauth2/authorize",
                            "https://discordapp.com/api/oauth2/token")>>,
      <<"Facebook", Provider("https://www.facebook.com/v3.1/dialog/oauth",
                             "https://graph.facebook.com/v3.1/oauth/access_token")>>,
      <<"GitHub", Provider("https://github.com/login/oauth/authorize",
                           "https://github.com/login/oauth/access_token")>>,
      <<"Google", Provider("https://accounts.google.com/o/oauth2/v2/auth",
                           "https://www.googleapis.com/oauth2/v4/token")>>,
      <<"Reddit", Provider("https://www.reddit.com/api/v1/authorize",
                           "https://www.reddit.com/api/v1/access_token")>>,
      <<"Yahoo", Provider("https://api.login.yahoo.com/oauth2/request_auth",
                          "https://api.login.yahoo.com/oauth2/get_token")>> }

\* A bug: the provider's name is looked up whatever its case.
FromKnownNameFolded(name) ==
    LET Folded == { <<"github", "GitHub">>, <<"GITHUB", "GitHub">>,
                    <<"discord", "Discord">>, <<"google", "Google">> }
        n == IF \E f \in Folded : f[1] = name
             THEN (CHOOSE f \in Folded : f[1] = name)[2] ELSE name
    IN  IF \E p \in KnownProviders : p[1] = n
        THEN Ok((CHOOSE p \in KnownProviders : p[1] = n)[2])
        ELSE Err(None)

\* Option<Provider>: Ok(provider) for Some, Err for None.
from_known_name(name) ==
    IF \E p \in KnownProviders : p[1] = name
    THEN Ok((CHOOSE p \in KnownProviders : p[1] = name)[2])
    ELSE Err(None)

type_error == BadType("provider", "known provider or table")

from_config_value(conf) ==
    IF conf.t = "string"
    THEN IF from_known_name(conf.s).ok THEN from_known_name(conf.s) ELSE Err(type_error)
    ELSE IF conf.t = "table"
    THEN LET auth_uri == get_config_string(conf.tab, "auth_uri")
             token_uri == get_config_string(conf.tab, "token_uri")
         IN  IF ~auth_uri.ok THEN auth_uri
             ELSE IF ~token_uri.ok THEN token_uri
             ELSE Ok(Provider(auth_uri.val, token_uri.val))
    ELSE Err(type_error)

(***************************************************************************)
(* OAuthConfig.                                                            *)
(***************************************************************************)
OAuthConfigNew(provider, client_id, client_secret, redirect_uri) ==
    [provider |-> provider, client_id |-> client_id,
     client_secret |-> client_secret, redirect_uri |-> redirect_uri]

\* Config::get_table: the table under name in the configuration's extras.
get_table(config, name) ==
    LET value == TableGet(config, name)
    IN  IF value.t = "absent" THEN Err(Missing(name))
        ELSE IF value.t # "table" THEN Err(BadType(name, "a table"))
        ELSE Ok(value.tab)

from_config(config, name) ==
    LET oauth == get_table(config, "oauth")
    IN  IF ~oauth.ok THEN oauth ELSE
    LET conf == TableGet(oauth.val, name)
    IN  IF conf.t = "absent" THEN Err(Missing(name)) ELSE
        IF conf.t # "table" THEN Err(BadType(name, "table")) ELSE
    LET table == conf.tab
        pv == TableGet(table, "provider")
        provider == IF pv.t = "absent" THEN Err(Missing("provider"))
                    ELSE from_config_value(pv)
    IN  IF ~provider.ok THEN provider ELSE
    LET client_id == get_config_string(table, "client_id")
    IN  IF ~client_id.ok THEN client_id ELSE
    LET client_secret == get_config_string(table, "client_secret")
    IN  IF ~client_secret.ok THEN client_secret ELSE
    LET redirect_uri == get_config_string(table, "redirect_uri")
    IN  IF ~redirect_uri.ok THEN redirect_uri ELSE
        Ok(OAuthConfigNew(provider.val, client_id.val, client_secret.val,
                          redirect_uri.val))

(***************************************************************************)
(* URIs are sequences of path segments: <<"auth", "github">> is            *)
(* /auth/github and <<>> is /.                                             *)
(***************************************************************************)
IsPrefix(p, q) == Len(p) <= Len(q) /\ SubSeq(q, 1, Len(p)) = p

\* RFC 6265 5.1.4: the request path up to, not including, its last "/".
DefaultPath(uri) == IF Len(uri) <= 1 THEN <<>> ELSE SubSeq(uri, 1, Len(uri) - 1)

NoPath == [set |-> FALSE, p |-> <<>>]
Path(p) == [set |-> TRUE, p |-> p]

(***************************************************************************)
(* Cookies.  A private cookie's value is sealed (encrypted and             *)
(* authenticated) under the application's secret key; a value the server   *)
(* did not seal does not authenticate.                                     *)
(***************************************************************************)
Seal(v) == [sealed |-> TRUE, v |-> v]
Raw(v) == [sealed |-> FALSE, v |-> v]

\* The request's cookie jar: the cookies of the Cookie header and the
\* changes (the delta) the handler has made so far.
RequestCookies(header) == [original |-> header, delta |-> {}]

\* A bug: the stored value is not the adapter's state.
AddPrivateStale(cookies, name, value, same_site) ==
    [cookies EXCEPT !.delta = {c \in @ : c.name # name} \cup
        {[name |-> name, value |-> Seal(""), path |-> Path(<<>>),
          same_site |-> same_site, removal |-> FALSE]}]

\* A bug: the cookie is stored without a Path, under the requested route's.
AddPrivateNoPath(cookies, name, value, same_site) ==
    [cookies EXCEPT !.delta = {c \in @ : c.name # name} \cup
        {[name |-> name, value |-> Seal(value), path |-> NoPath,
          same_site |-> same_site, removal |-> FALSE]}]

\* Cookies::add_private: seal the value, default Path to "/".
add_private(cookies, name, value, same_site) ==
    [cookies EXCEPT !.delta = {c \in @ : c.name # name} \cup
        {[name |-> name, value |-> Seal(value), path |-> Path(<<>>),
          same_site |-> same_site, removal |-> FALSE]}]

\* Cookies::get_private: Some(cookie) with the unsealed value; the cookie of
\* a request carries a name and a value only.
get_private(cookies, name) ==
    IF \E c \in cookies.original : c.name = name /\ c.value.sealed
    THEN LET c == CHOOSE c \in cookies.original : c.name = name /\ c.value.sealed
         IN  Ok([name |-> c.name, value |-> c.value.v, path |-> NoPath])
    ELSE Err(None)

\* Cookies::remove: a removal cookie with the given cookie's own path.
remove(cookies, cookie) ==
    IF \E c \in cookies.original : c.name = cookie.name
    THEN [cookies EXCEPT !.delta = {c \in @ : c.name # cookie.name} \cup
            {[name |-> cookie.name, value |-> Raw(""), path |-> cookie.path,
              same_site |-> "unset", removal |-> TRUE]}]
    ELSE [cookies EXCEPT !.delta = {c \in @ : c.name # cookie.name}]

(***************************************************************************)
(* The browser.  jar is a set of [name, value, path].                      *)
(***************************************************************************)
\* The Cookie header of a request to uri.
CookieHeader(jarb, uri) ==
    {[name |-> c.name, value |-> c.value] : c \in {d \in jarb : IsPrefix(d.path, uri)}}

EffectivePath(sc, uri) == IF sc.path.set THEN sc.path.p ELSE DefaultPath(uri)

\* RFC 6265 5.3: a Set-Cookie replaces the stored cookie of the same name
\* and path; an expired one (a removal) is then evicted.
BrowserApply(jarb, uri, set_cookies) ==
    {c \in jarb : ~\E sc \in set_cookies :
                      sc.name = c.name /\ EffectivePath(sc, uri) = c.path}
    \cup {[name |-> sc.name, value |-> sc.value, path |-> EffectivePath(sc, uri)] :
            sc \in {x \in set_cookies : ~x.removal}}

(***************************************************************************)
(* The callback query.  A raw value is percent-encoded text.               *)
(***************************************************************************)
PctDecoded == {<<"S%31", "S1">>}
BadEncodings == {"%FF"}

\* RawStr::url_decode: Err on text that does not decode to UTF-8.
url_decode(raw) ==
    IF raw \in BadEncodings THEN Err("Utf8Error")
    ELSE IF \E p \in PctDecoded : p[1] = raw
    THEN Ok((CHOOSE p \in PctDecoded : p[1] = raw)[2])
    ELSE Ok(raw)

Item(k, v) == [key |-> k, value |-> v]

HasKey(items, k) == \E i \in 1..Len(items) : items[i].key = k
LastOf(items, k) ==
    items[CHOOSE i \in 1..Len(items) :
            /\ items[i].key = k
            /\ \A j \in (i + 1)..Len(items) : items[j].key # k]

\* #[derive(FromForm)] struct CallbackQuery { code: String, state: String }:
\* each code or state item is decoded as it is met (the last one stands), an
\* unknown key is an error only when strict, a missing field is an error.
from_form(items, strict) ==
    IF \E i \in 1..Len(items) :
          items[i].key \in {"code", "state"} /\ ~url_decode(items[i].value).ok
    THEN Err("BadValue")
    ELSE IF strict /\ \E i \in 1..Len(items) :
                         items[i].key \notin {"code", "state", "_method"}
    THEN Err("Unknown")
    ELSE IF ~HasKey(items, "code") THEN Err("Missing code")
    ELSE IF ~HasKey(items, "state") THEN Err("Missing state")
    ELSE Ok([code |-> url_decode(LastOf(items, "code").value).val,
             state |-> url_decode(LastOf(items, "state").value).val])

\* A bug: the form is parsed strictly.
CallbackQueryStrict(items) == from_form(items, TRUE)

CallbackQueryFromForm(items) == from_form(items, FALSE)

(***************************************************************************)
(* Handler outcomes and the response Rocket sends for them.                *)
(***************************************************************************)
Success(status, location, body) ==
    [kind |-> "Success", status |-> status, location |-> location, body |-> body]
Failure(status) ==
    [kind |-> "Failure", status |-> status, location |-> None, body |-> None]

\* What a handler did: its outcome, the request's cookie jar when it
\* returned, and the calls it made on the Adapter and the Callback.
Handled(outcome, cookies, matched, auth_calls, exchange_calls, callback_calls) ==
    [outcome |-> outcome, cookies |-> cookies, matched |-> matched,
     authorization_calls |-> auth_calls, exchange_calls |-> exchange_calls,
     callback_calls |-> callback_calls]

\* handler::Outcome::from(request, responder): the responder's response, or
\* a failure with the status it fails with.
OutcomeFrom(responder) ==
    IF responder.ok
    THEN Success(responder.val.status, responder.val.location, responder.val.body)
    ELSE Failure(responder.err)

\* Redirect::to(uri) as a responder: 303 See Other with a Location header.
RedirectTo(uri) == Ok([status |-> 303, location |-> uri, body |-> None])

\* Result<Redirect, A::Error> as a responder: the redirect on Ok, the
\* error logged and a 500 on Err.
ResultResponder(result) ==
    IF result.ok THEN result.val ELSE Err(500)

\* The body of a response: the catcher's fixed page for the status, or what
\* the handler's responder wrote.
CatcherBody == [from |-> "catcher", text |-> "error page"]
HandlerBody(text) == [from |-> "handler", text |-> text]

\* Rocket's dispatch: a Success is sent with the request's cookie delta; a
\* Failure is answered by the status's catcher after the delta was reset.
Respond(h) ==
    IF h.outcome.kind = "Failure"
    THEN [status |-> h.outcome.status, location |-> None,
          body |-> CatcherBody, set_cookies |-> {}]
    ELSE [status |-> h.outcome.status, location |-> h.outcome.location,
          body |-> HandlerBody(h.outcome.body), set_cookies |-> h.cookies.delta]

(***************************************************************************)
(* OAuth2: get_redirect and handle.  The Adapter's and the Callback's      *)
(* answers are inputs: auth is what authorization_uri returns, exch what   *)
(* exchange_code returns, responder what the Callback returns.             *)
(***************************************************************************)
\* A bug: the state cookie is set before the Adapter's answer is looked at.
GetRedirectEager(self, cookies, scopes, auth) ==
    LET calls == <<[config |-> self.config, scopes |-> scopes]>>
        set == add_private(cookies, STATE_COOKIE_NAME,
                           IF auth.ok THEN auth.val.state ELSE "", "Lax")
    IN  [result |-> IF auth.ok THEN Ok(RedirectTo(auth.val.uri)) ELSE auth,
         cookies |-> set, authorization_calls |-> calls]

get_redirect(self, cookies, scopes, auth) ==
    LET calls == <<[config |-> self.config, scopes |-> scopes]>>
    IN  IF ~auth.ok
        THEN [result |-> auth, cookies |-> cookies, authorization_calls |-> calls]
        ELSE [result |-> Ok(RedirectTo(auth.val.uri)),
              cookies |-> add_private(cookies, STATE_COOKIE_NAME, auth.val.state, "Lax"),
              authorization_calls |-> calls]

\* A bug: the state is not compared with the cookie's value.
StateMatchesAny(cookie, params) == cookie.ok

\* A bug: an empty state is let through whatever the cookie holds.
StateMatchesOrEmpty(cookie, params) ==
    cookie.ok /\ (params.state = "" \/ cookie.val.value = params.state)

\* Some(ref cookie) if cookie.value() == params.state
StateMatches(cookie, params) == cookie.ok /\ cookie.val.value = params.state

\* A bug: the Callback runs whatever the exchange returned.
AfterExchangeAlways(self, cookies, params, exch, responder) ==
    Handled(IF exch.ok THEN OutcomeFrom(responder) ELSE Failure(400), cookies, TRUE, <<>>,
            <<[config |-> self.config, code |-> params.code]>>,
            <<IF exch.ok THEN exch.val ELSE "no token">>)

\* A bug: the state parameter is exchanged in place of the code.
AfterExchangeStateAsCode(self, cookies, params, exch, responder) ==
    LET exchange_calls == <<[config |-> self.config, code |-> params.state]>>
    IN  IF ~exch.ok
        THEN Handled(Failure(400), cookies, TRUE, <<>>, exchange_calls, <<>>)
        ELSE Handled(OutcomeFrom(responder), cookies, TRUE, <<>>, exchange_calls,
                     <<exch.val>>)

\* A bug: the status of the rejection tells which error the Adapter returned.
AfterExchangeLeaks(self, cookies, params, exch, responder) ==
    LET exchange_calls == <<[config |-> self.config, code |-> params.code]>>
    IN  IF ~exch.ok
        THEN Handled(Failure(IF exch.err = "timeout" THEN 504 ELSE 400), cookies, TRUE,
                     <<>>, exchange_calls, <<>>)
        ELSE Handled(OutcomeFrom(responder), cookies, TRUE, <<>>, exchange_calls,
                     <<exch.val>>)

\* A bug: a failed exchange is tried once more.
AfterExchangeRetries(self, cookies, params, exch, responder) ==
    LET exchange_calls == <<[config |-> self.config, code |-> params.code]>>
    IN  IF ~exch.ok
        THEN Handled(Failure(400), cookies, TRUE, <<>>, exchange_calls \o exchange_calls,
                     <<>>)
        ELSE Handled(OutcomeFrom(responder), cookies, TRUE, <<>>, exchange_calls,
                     <<exch.val>>)

\* The token exchange and the Callback, after the state was verified.
AfterExchange(self, cookies, params, exch, responder) ==
    LET exchange_calls == <<[config |-> self.config, code |-> params.code]>>
    IN  IF ~exch.ok
        THEN Handled(Failure(400), cookies, TRUE, <<>>, exchange_calls, <<>>)
        ELSE Handled(OutcomeFrom(responder), cookies, TRUE, <<>>, exchange_calls,
                     <<exch.val>>)

\* A bug: a request without a state cookie is taken to the exchange.
HandleWithoutCookie(self, cookies, query, exch, responder) ==
    IF ~query.some THEN Handled(Failure(400), cookies, FALSE, <<>>, <<>>, <<>>) ELSE
    LET params == CallbackQueryFromForm(query.items)
    IN  IF ~params.ok THEN Handled(Failure(400), cookies, FALSE, <<>>, <<>>, <<>>) ELSE
    LET cookie == get_private(cookies, STATE_COOKIE_NAME)
    IN  IF cookie.ok /\ cookie.val.value # params.val.state
        THEN Handled(Failure(400), cookies, FALSE, <<>>, <<>>, <<>>)
        ELSE AfterExchange(self, IF cookie.ok THEN remove(cookies, cookie.val) ELSE cookies,
                           params.val, exch, responder)

\* A bug: the state cookie is removed before it is compared.
HandleRemovesFirst(self, cookies, query, exch, responder) ==
    IF ~query.some THEN Handled(Failure(400), cookies, FALSE, <<>>, <<>>, <<>>) ELSE
    LET params == CallbackQueryFromForm(query.items)
    IN  IF ~params.ok THEN Handled(Failure(400), cookies, FALSE, <<>>, <<>>, <<>>) ELSE
    LET cookie == get_private(cookies, STATE_COOKIE_NAME)
        removed == IF cookie.ok THEN remove(cookies, cookie.val) ELSE cookies
    IN  IF ~StateMatches(cookie, params.val)
        THEN Handled(Failure(400), removed, FALSE, <<>>, <<>>, <<>>)
        ELSE AfterExchange(self, removed, params.val, exch, responder)

\* OAuth2::handle: the query, the state cookie, the exchange, the Callback.
handle(self, cookies, query, exch, responder) ==
    IF ~query.some THEN Handled(Failure(400), cookies, FALSE, <<>>, <<>>, <<>>) ELSE
    LET params == CallbackQueryFromForm(query.items)
    IN  IF ~params.ok THEN Handled(Failure(400), cookies, FALSE, <<>>, <<>>, <<>>) ELSE
    LET cookie == get_private(cookies, STATE_COOKIE_NAME)
    IN  IF ~StateMatches(cookie, params.val)
        THEN Handled(Failure(400), cookies, FALSE, <<>>, <<>>, <<>>)
        ELSE AfterExchange(self, remove(cookies, cookie.val), params.val, exch, responder)

\* A bug: a missing managed instance is reported as a bad request.
RedirectHandlerBadRequest(managed, cookies, query, exch, responder) ==
    IF ~managed.some THEN Handled(Failure(400), cookies, FALSE, <<>>, <<>>, <<>>)
    ELSE handle(managed.oauth2, cookies, query, exch, responder)

\* The OAuth redirect route; managed is the State<OAuth2<A, C>> guard.
redirect_handler(managed, cookies, query, exch, responder) ==
    IF ~managed.some THEN Handled(Failure(500), cookies, FALSE, <<>>, <<>>, <<>>)
    ELSE handle(managed.oauth2, cookies, query, exch, responder)

\* A bug: the login route asks for no scopes at all.
LoginHandlerNoScopes(managed, cookies, auth) ==
    IF ~managed.some THEN Handled(Failure(500), cookies, FALSE, <<>>, <<>>, <<>>)
    ELSE LET r == get_redirect(managed.oauth2, cookies, <<>>, auth)
         IN  Handled(OutcomeFrom(ResultResponder(r.result)), r.cookies, FALSE,
                     r.authorization_calls, <<>>, <<>>)

\* The login route.
login_handler(managed, cookies, auth) ==
    IF ~managed.some THEN Handled(Failure(500), cookies, FALSE, <<>>, <<>>, <<>>)
    ELSE LET r == get_redirect(managed.oauth2, cookies, managed.oauth2.default_scopes, auth)
         IN  Handled(OutcomeFrom(ResultResponder(r.result)), r.cookies, FALSE,
                     r.authorization_calls, <<>>, <<>>)

(***************************************************************************)
(* The fairing.                                                            *)
(***************************************************************************)
Route(uri, handler) == [method |-> "GET", uri |-> uri, handler |-> handler]

NoManaged == [some |-> FALSE]
Managed(oauth2) == [some |-> TRUE, oauth2 |-> oauth2]

\* OAuth2::custom and its "OAuth Mount" fairing: the routes and the instance
\* placed in managed state.
custom(config, callback_uri, login) ==
    [routes |-> {Route(callback_uri, "redirect_handler")} \cup
                (IF login.some THEN {Route(login.uri, "login_handler")} ELSE {}),
     oauth2 |-> [config |-> config,
                 default_scopes |-> IF login.some THEN login.scopes ELSE <<>>]]

\* A bug: a configuration error is not fatal, the routes are mounted anyway.
FairingMountsAnyway(r, a) ==
    LET config == from_config(r.config, a.config_name)
        c == custom(IF config.ok THEN config.val ELSE OAuthConfigNew(Provider("", ""), "", "", ""),
                    a.callback_uri, a.login)
    IN  [r EXCEPT !.phase = "launched", !.managed = Managed(c.oauth2),
                  !.routes = @ \cup c.routes]

\* OAuth2::fairing's "OAuth Init": Err(rocket) aborts the launch.
fairing(r, a) ==
    LET config == from_config(r.config, a.config_name)
    IN  IF ~config.ok THEN [r EXCEPT !.phase = "aborted"]
        ELSE LET c == custom(config.val, a.callback_uri, a.login)
             IN  [r EXCEPT !.phase = "launched", !.managed = Managed(c.oauth2),
                           !.routes = @ \cup c.routes]

Mounted(r, handler) == \E rt \in r.routes : rt.handler = handler
RouteUri(r, handler) == (CHOOSE rt \in r.routes : rt.handler = handler).uri

(***************************************************************************)
(* The inputs the model draws from.                                        *)
(***************************************************************************)
Entry(provider, client_id, client_secret, redirect_uri) ==
    Tab({kv \in {<<"provider", provider>>, <<"client_id", client_id>>,
                 <<"client_secret", client_secret>>, <<"redirect_uri", redirect_uri>>} :
            kv[2].t # "absent"})

\* A Rocket configuration whose [oauth.github] entry is the given value.
WithEntry(entry) == {<<"oauth", Tab({<<"github", entry>>})>>}

CustomProvider(auth_uri, token_uri) ==
    Tab({kv \in {<<"auth_uri", auth_uri>>, <<"token_uri", token_uri>>} :
            kv[2].t # "absent"})

GoodId == Str("id")
GoodSecret == Str("secret")
GoodRedirect == Str("http://localhost/auth/github")

GoodConfigs ==
    { WithEntry(Entry(Str("GitHub"), GoodId, GoodSecret, GoodRedirect)),
      WithEntry(Entry(CustomProvider(Str(""), Str("https://idp/token")),
                      Str(""), GoodSecret, Str(""))) }

BadConfigs ==
    { {},
      {<<"oauth", Str("github")>>},
      {<<"oauth", Tab({<<"gitlab", Entry(Str("GitHub"), GoodId, GoodSecret, GoodRedirect)>>})>>},
      WithEntry(Str("GitHub")),
      WithEntry(Entry(Absent, GoodId, GoodSecret, GoodRedirect)),
      WithEntry(Entry(Str("github"), GoodId, GoodSecret, GoodRedirect)),
      WithEntry(Entry(Integer("7"), GoodId, GoodSecret, GoodRedirect)),
      WithEntry(Entry(CustomProvider(Str("https://idp/auth"), Absent),
                      GoodId, GoodSecret, GoodRedirect)),
      WithEntry(Entry(CustomProvider(Integer("7"), Str("https://idp/token")),
                      GoodId, GoodSecret, GoodRedirect)),
      WithEntry(Entry(Str("GitHub"), Absent, GoodSecret, GoodRedirect)),
      WithEntry(Entry(Str("GitHub"), Integer("7"), GoodSecret, GoodRedirect)),
      WithEntry(Entry(Str("GitHub"), GoodId, Absent, GoodRedirect)),
      WithEntry(Entry(Str("GitHub"), GoodId, Integer("7"), GoodRedirect)),
      WithEntry(Entry(Str("GitHub"), GoodId, GoodSecret, Absent)),
      WithEntry(Entry(Str("GitHub"), GoodId, GoodSecret, Integer("7"))) }

\* The values a configuration may hold under provider: the known names,
\* other spellings and other names, tables, and values of other types.
ProviderNames == {"Discord", "Facebook", "GitHub", "Google", "Reddit", "Yahoo"}
OtherNames == {"github", "GITHUB", "discord", "google", "GitLab", "Twitter", ""}
UriValues == {Str("https://idp/auth"), Str("https://idp/token"), Str(""), Integer("7"), Absent}
ProviderValues ==
    {Str(n) : n \in ProviderNames \cup OtherNames}
    \cup {CustomProvider(a, tk) : a \in UriValues, tk \in UriValues}
    \cup {Integer("7"), Absent}

RocketConfigs == GoodConfigs \cup BadConfigs

NoLogin == [some |-> FALSE, uri |-> <<>>, scopes |-> <<>>]
Login(uri, scopes) == [some |-> TRUE, uri |-> uri, scopes |-> scopes]

\* The arguments the application gives OAuth2::fairing.
FairingArgs ==
    { [config_name |-> "github", callback_uri |-> <<"callback">>, login |-> NoLogin],
      [config_name |-> "github", callback_uri |-> <<"auth", "github">>,
       login |-> Login(<<"login", "github">>, <<"user:email", "read">>)] }

\* The application's own route that calls get_redirect, and its scopes.
AppLoginUri == <<"app", "login">>
AppScopes == {<<"read", "write">>}

\* What the Adapter and the Callback may answer.
AdapterStates == {"S1", "S2"}
AuthUris == {"https://idp/auth?state=fresh"}
AdapterErrors == {"timeout", "denied"}
Tokens == {"T1", "T2"}
ExchangeResults == {Ok(tk) : tk \in Tokens} \cup {Err(e) : e \in AdapterErrors}
Responders ==
    { Ok([status |-> 200, location |-> None, body |-> "welcome"]),
      Err(500) }

\* The callback requests a client may send: up to MaxItems code and state
\* items in any order, alone or with another parameter before or after.
CoreItems ==
    {Item("code", v) : v \in {"XYZ", "%FF"}}
    \cup {Item("state", v) : v \in {"S1", "S2", "S%31", ""}}
ExtraItem == Item("scope", "read")
NoQuery == [some |-> FALSE, items |-> <<>>]
Query(items) == [some |-> TRUE, items |-> items]
Queries ==
    {NoQuery} \cup
    UNION { {Query(core), Query(<<ExtraItem>> \o core), Query(core \o <<ExtraItem>>)} :
              core \in UNION {[1..n -> CoreItems] : n \in 0..MaxItems} }

\* What a query holds, read off its items.
QueryView(query) ==
    [some |-> query.some,
     has_code |-> HasKey(query.items, "code"),
     has_state |-> HasKey(query.items, "state"),
     malformed |-> \E i \in 1..Len(query.items) :
                      /\ query.items[i].key \in {"code", "state"}
                      /\ query.items[i].value \in BadEncodings,
     extras |-> \E i \in 1..Len(query.items) : query.items[i].key \notin {"code", "state"},
     core |-> SelectSeq(query.items, LAMBDA it : it.key \in {"code", "state"}),
     code |-> IF HasKey(query.items, "code") THEN LastOf(query.items, "code").value ELSE None,
     state |-> IF HasKey(query.items, "state") THEN LastOf(query.items, "state").value
               ELSE None]

(***************************************************************************)
(* The state.                                                              *)
(***************************************************************************)
VARIABLES
    rocket,     \* the Rocket instance: its configuration, launch phase,
                \* managed OAuth2 instance and mounted routes
    args,       \* the arguments given to OAuth2::fairing
    jar,        \* jar[b]: the cookies browser b stores, each [name, value, path]
    inflight,   \* the callback requests sent and not yet handled (a bag)
    owner,      \* owner[s]: the browser whose login attempts were issued
                \* state s by the Adapter, 0 while s was never issued
    spent,      \* spent[b]: the state cookie b stores was matched by a
                \* callback of b whose answer b has received
    drift,      \* drift.exchange: the exchange_code invocations so far minus
                \* the successful state matches so far; drift.callback: the
                \* Callback invocations so far minus the successful
                \* exchange_code returns so far
    last        \* the answer on its way to the browser, with what the
                \* handler that produced it did

vars == <<rocket, args, jar, inflight, owner, spent, drift, last>>

NoLast == [some |-> FALSE]

Launching(config) ==
    [config |-> config, phase |-> "ignite", managed |-> NoManaged, routes |-> {}]

Quiet ==
    /\ jar = [b \in Browsers |-> {}]
    /\ inflight = EmptyBag
    /\ owner = [s \in AdapterStates |-> 0]
    /\ spent = [b \in Browsers |-> FALSE]
    /\ drift = [exchange |-> 0, callback |-> 0]
    /\ last = NoLast

Init ==
    /\ args \in FairingArgs
    /\ rocket \in {Launching(c) : c \in RocketConfigs}
    /\ Quiet

\* A host that mounted the routes without the managed instance: the wiring
\* defect the handlers' State guard answers with a 500.
Unmanaged(config, a) == [fairing(Launching(config), a) EXCEPT !.managed = NoManaged]

InitWiring ==
    /\ args \in FairingArgs
    /\ \E c \in {WithEntry(Entry(Str("GitHub"), GoodId, GoodSecret, GoodRedirect))} :
          rocket \in {Launching(c), Unmanaged(c, args)}
    /\ Quiet

(***************************************************************************)
(* The actions.                                                            *)
(***************************************************************************)
\* Rocket runs the attach fairings when it is launched.
Attach ==
    /\ rocket.phase = "ignite"
    /\ rocket' = fairing(rocket, args)
    /\ UNCHANGED <<args, jar, inflight, owner, spent, drift, last>>

\* The state values the CSRF cookies among cs unseal to.
Carried(cs) ==
    {c.value.v : c \in {x \in cs : x.name = STATE_COOKIE_NAME /\ x.value.sealed}}

\* The state value a response stores in the CSRF cookie, if it stores one.
Stored(response) == Carried({x \in response.set_cookies : ~x.removal})

\* auth, exch and responder are what the Adapter and the Callback answered
\* (Unasked when the handler did not ask).
Unasked == Err("unasked")
Answered(b, route, uri, cookies, replay, raced, query, auth, exch, responder, h) ==
    [some |-> TRUE, browser |-> b, route |-> route, uri |-> uri, cookies |-> cookies,
     replay |-> replay, raced |-> raced, query |-> QueryView(query),
     auth |-> IF Len(h.authorization_calls) > 0 THEN auth ELSE Unasked,
     exch |-> IF Len(h.exchange_calls) > 0 THEN exch ELSE Unasked,
     responder |-> IF Len(h.callback_calls) > 0 THEN responder ELSE Unasked,
     handled |-> h, response |-> Respond(h), managed |-> rocket.managed.some]

\* What the Adapter may answer a login attempt of browser b: a state it has
\* issued to no other browser's attempts, or an error.
AuthResultsFor(b) ==
    {Ok([uri |-> u, state |-> st]) :
        u \in AuthUris, st \in {x \in AdapterStates : owner[x] \in {0, b}}}
    \cup {Err(e) : e \in AdapterErrors}

Issue(b, auth) ==
    owner' = IF auth.ok THEN [owner EXCEPT ![auth.val.state] = b] ELSE owner

\* A browser requests the login route and the server answers.  The handler
\* reads nothing of the request, so that sending it is no step of its own.
LoginRequest(b) ==
    /\ ~last.some
    /\ rocket.phase = "launched"
    /\ Mounted(rocket, "login_handler")
    /\ LET uri == RouteUri(rocket, "login_handler")
           cookies == CookieHeader(jar[b], uri)
       IN  IF rocket.managed.some
           THEN \E auth \in AuthResultsFor(b) :
                  /\ last' = Answered(b, "login", uri, cookies, FALSE, FALSE, NoQuery,
                                 auth, Unasked, Unasked,
                                 login_handler(rocket.managed, RequestCookies(cookies), auth))
                  /\ Issue(b, auth)
           ELSE /\ last' = Answered(b, "login", uri, cookies, FALSE, FALSE, NoQuery,
                               Unasked, Unasked, Unasked,
                               login_handler(rocket.managed, RequestCookies(cookies),
                                             Unasked))
                /\ UNCHANGED owner
    /\ UNCHANGED <<rocket, args, jar, inflight, spent, drift>>

\* A route of the application calls get_redirect with scopes of its own and
\* returns the result as its responder.
AppLogin(b) ==
    /\ ~last.some
    /\ rocket.phase = "launched"
    /\ rocket.managed.some
    /\ \E auth \in AuthResultsFor(b), scopes \in AppScopes :
          LET cookies == CookieHeader(jar[b], AppLoginUri)
              r == get_redirect(rocket.managed.oauth2, RequestCookies(cookies),
                                scopes, auth)
          IN  /\ last' = Answered(b, "app", AppLoginUri, cookies, FALSE, FALSE, NoQuery,
                             auth, Unasked, Unasked,
                             Handled(OutcomeFrom(ResultResponder(r.result)), r.cookies,
                                     FALSE, r.authorization_calls, <<>>, <<>>))
              /\ Issue(b, auth)
    /\ UNCHANGED <<rocket, args, jar, inflight, spent, drift>>

\* replay: the request carries a state cookie that a callback of this
\* browser had matched, its answer received, before the request was sent.
\* raced: while the request was in flight, another callback of this browser
\* carrying the same state cookie passed state verification.
Request(b, uri, cookies) ==
    [browser |-> b, uri |-> uri, cookies |-> cookies,
     replay |-> spent[b] /\ Carried(cookies) # {}, raced |-> FALSE]

\* The requests left in flight once r was handled; h is what its handler did.
Overtaken(q, r, h) ==
    IF h.matched /\ q.browser = r.browser /\ Carried(q.cookies) = Carried(r.cookies)
    THEN [q EXCEPT !.raced = TRUE]
    ELSE q
LeftInFlight(r, h) ==
    BagOfAll(LAMBDA q : Overtaken(q, r, h), inflight (-) SetToBag({r}))

\* A browser sends a request to the callback route with the cookies it
\* stores for that path.
SendCallback(b) ==
    /\ ~last.some
    /\ rocket.phase = "launched"
    /\ Mounted(rocket, "redirect_handler")
    /\ BagCardinality(inflight) < MaxInFlight
    /\ LET uri == RouteUri(rocket, "redirect_handler")
       IN  inflight' = inflight (+) SetToBag({Request(b, uri, CookieHeader(jar[b], uri))})
    /\ UNCHANGED <<rocket, args, jar, owner, spent, drift, last>>

\* The request passes state verification: the instance is there, the query
\* parses, and its state is the value of the state cookie the request carries.
Verifies(r, query) ==
    /\ rocket.managed.some
    /\ query.some
    /\ from_form(query.items, FALSE).ok
    /\ from_form(query.items, FALSE).val.state \in Carried(r.cookies)

\* drift after the request r with the given query was handled as h.
Tally(r, query, exch, h) ==
    [exchange |-> drift.exchange + Len(h.exchange_calls)
                    - (IF Verifies(r, query) THEN 1 ELSE 0),
     callback |-> drift.callback + Len(h.callback_calls)
                    - (IF exch.ok THEN Len(h.exchange_calls) ELSE 0)]

\* The server handles a callback request and answers it.  The Adapter's and
\* the Callback's answers are drawn only when the handler asks for them.
Serve(r) ==
    /\ ~last.some
    /\ BagIn(r, inflight)
    /\ \E query \in Queries :
        LET cookies == RequestCookies(r.cookies)
            probe == redirect_handler(rocket.managed, cookies, query, Unasked, Unasked)
        IN  \E exch \in (IF Len(probe.exchange_calls) > 0 THEN ExchangeResults
                         ELSE {Unasked}) :
            \E responder \in (IF exch.ok THEN Responders ELSE {Unasked}) :
              LET h == redirect_handler(rocket.managed, cookies, query, exch, responder)
              IN  /\ last' = Answered(r.browser, "callback", r.uri, r.cookies, r.replay,
                                     r.raced, query, Unasked, exch, responder, h)
                  /\ inflight' = LeftInFlight(r, h)
                  /\ drift' = Tally(r, query, exch, h)
    /\ UNCHANGED <<rocket, args, jar, owner, spent>>

\* The browser's cookies after it has received the answer.
JarAfter(answer) == BrowserApply(jar[answer.browser], answer.uri, answer.response.set_cookies)

\* The browser receives the answer and applies its Set-Cookie headers.
Receive ==
    /\ last.some
    /\ LET b == last.browser
           after == JarAfter(last)
       IN  /\ jar' = [jar EXCEPT ![b] = after]
           /\ spent' = [spent EXCEPT ![b] =
                 IF Carried(after) = {} \/ Stored(last.response) # {} THEN FALSE
                 ELSE IF last.handled.matched /\ Carried(last.cookies) = Carried(after)
                 THEN TRUE
                 ELSE @]
    /\ last' = NoLast
    /\ UNCHANGED <<rocket, args, inflight, owner, drift>>

Next ==
    \/ Attach
    \/ \E b \in Browsers : LoginRequest(b)
    \/ \E b \in Browsers : AppLogin(b)
    \/ \E b \in Browsers : SendCallback(b)
    \/ \E r \in BagToSet(inflight) : Serve(r)
    \/ Receive

Spec == Init /\ [][Next]_vars

SpecWiring == InitWiring /\ [][Next]_vars

\* Launches over every provider value, the other fields of the entry valid:
\* the attach fairing applies from_config, and that from_config_value.
InitProvider ==
    /\ args \in FairingArgs
    /\ rocket \in {Launching(WithEntry(Entry(pv, GoodId, GoodSecret, GoodRedirect))) :
                      pv \in ProviderValues}
    /\ Quiet

SpecProvider == InitProvider /\ [][Attach]_vars

(***************************************************************************)
(* What the claims speak of.                                               *)
(***************************************************************************)
CallbackAnswer == last.some /\ last.route = "callback"
LoginAnswer == last.some /\ last.route \in {"login", "app"}

\* Rejected (400): the handler failed with BadRequest and the browser gets
\* a 400.
Rejected(a) ==
    /\ a.handled.outcome = Failure(400)
    /\ a.response.status = 400

NoExchange(a) == a.handled.exchange_calls = <<>>
NoCallback(a) == a.handled.callback_calls = <<>>

\* The request has well-formed code and state parameters.
WellFormed(a) ==
    a.query.some /\ a.query.has_code /\ a.query.has_state /\ ~a.query.malformed

\* The state and code parameters of a well-formed request.
StateParam(a) == url_decode(a.query.state).val
CodeParam(a) == url_decode(a.query.code).val

\* The browser's cookies once it has received the answer on its way.
AfterAnswer == JarAfter(last)

(***************************************************************************)
(* C1: CSRF single-use.  A callback request that a browser sends after it  *)
(* received the answer to a callback that matched the state cookie it      *)
(* still stores (a second callback reusing the state) does not pass state  *)
(* verification: it is Rejected (400) and exchange_code is not invoked.    *)
(***************************************************************************)
C1_SingleUse ==
    (CallbackAnswer /\ last.managed /\ last.replay)
        => /\ ~last.handled.matched
           /\ Rejected(last)
           /\ NoExchange(last)

(***************************************************************************)
(* C2: CSRF binding.  exchange_code is invoked for a callback request only *)
(* if the request's state parameter is the value its browser's state       *)
(* cookie holds, a value the Adapter issued to a login attempt of that     *)
(* same browser; a callback whose state was issued to another browser (or  *)
(* to none) is Rejected without an exchange.                               *)
(***************************************************************************)
C2_Binding ==
    (CallbackAnswer /\ last.managed) =>
        /\ ~NoExchange(last) =>
              /\ WellFormed(last)
              /\ Carried(last.cookies) = {StateParam(last)}
              /\ owner[StateParam(last)] = last.browser
        /\ (WellFormed(last) /\ StateParam(last) \in AdapterStates
                /\ owner[StateParam(last)] # last.browser)
              => Rejected(last) /\ NoExchange(last) /\ NoCallback(last)

\* A browser that stores a state cookie of its own sends a callback with a
\* state issued to another browser, and is rejected.
C2_Witness ==
    /\ CallbackAnswer /\ last.managed /\ WellFormed(last)
    /\ Carried(last.cookies) # {}
    /\ StateParam(last) \in AdapterStates
    /\ owner[StateParam(last)] \notin {0, last.browser}
    /\ Rejected(last)

(***************************************************************************)
(* C3: state mismatch and missing cookie.  A callback request with         *)
(* well-formed code and state whose state cookie is absent, or holds a     *)
(* value other than the state parameter, is Rejected (400), and neither    *)
(* exchange_code nor the Callback is invoked.                              *)
(***************************************************************************)
C3_Mismatch ==
    (CallbackAnswer /\ last.managed /\ WellFormed(last)
        /\ StateParam(last) \notin Carried(last.cookies))
        => /\ Rejected(last)
           /\ NoExchange(last)
           /\ NoCallback(last)
           /\ ~last.handled.matched

\* A request with a state cookie and another state in its query.
C3_Witness ==
    /\ CallbackAnswer /\ last.managed /\ WellFormed(last)
    /\ Carried(last.cookies) # {}
    /\ StateParam(last) \notin Carried(last.cookies)
    /\ Rejected(last)

(***************************************************************************)
(* C4: happy path.  A callback request whose state parameter equals the    *)
(* cookie's value and whose code is C invokes exchange_code exactly once,  *)
(* with C and the instance's config; when that returns a token the         *)
(* Callback is invoked exactly once with that token, and what the Callback *)
(* returns is the outcome of the request and the response sent.            *)
(***************************************************************************)
C4_HappyPath ==
    (CallbackAnswer /\ last.managed /\ WellFormed(last)
        /\ StateParam(last) \in Carried(last.cookies))
        => /\ last.handled.exchange_calls =
                <<[config |-> rocket.managed.oauth2.config, code |-> CodeParam(last)]>>
           /\ last.exch.ok =>
                /\ last.handled.callback_calls = <<last.exch.val>>
                /\ last.handled.outcome = OutcomeFrom(last.responder)
                /\ last.response.status = last.handled.outcome.status
                /\ last.responder.ok =>
                      /\ last.response.status = last.responder.val.status
                      /\ last.response.location = last.responder.val.location
                      /\ last.response.body = HandlerBody(last.responder.val.body)

\* The exchange returned a token and the Callback's response was sent.
C4_Witness ==
    /\ CallbackAnswer /\ last.managed /\ last.handled.matched
    /\ last.exch.ok /\ last.exch.val = "T2"
    /\ last.responder.ok
    /\ last.response.status = 200

(***************************************************************************)
(* C5: exchange failure.  When exchange_code returns an error the request  *)
(* ends Rejected with a 400 and the Callback is not invoked.               *)
(***************************************************************************)
C5_ExchangeFailure ==
    (CallbackAnswer /\ ~NoExchange(last) /\ ~last.exch.ok)
        => /\ Rejected(last)
           /\ NoCallback(last)
           /\ Len(last.handled.exchange_calls) = 1
           /\ last.response.body = CatcherBody

C5_Witness ==
    /\ CallbackAnswer /\ ~NoExchange(last)
    /\ last.exch = Err("denied")
    /\ last.response.status = 400

(***************************************************************************)
(* C6: begin_login success.  When authorization_uri returns (uri, state),  *)
(* get_redirect stores exactly that state in the private (sealed),         *)
(* SameSite=Lax cookie named rocket_oauth2_state and returns a redirect to *)
(* exactly that uri; the browser then stores that state.                   *)
(***************************************************************************)
C6_BeginLogin ==
    (LoginAnswer /\ last.managed /\ last.auth.ok)
        => /\ \E sc \in last.response.set_cookies :
                /\ last.response.set_cookies = {sc}
                /\ sc.name = "rocket_oauth2_state"
                /\ sc.value = Seal(last.auth.val.state)
                /\ sc.same_site = "Lax"
                /\ ~sc.removal
           /\ last.response.status = 303
           /\ last.response.location = last.auth.val.uri
           /\ Carried(AfterAnswer) = {last.auth.val.state}

\* A login that replaces the state cookie of an earlier attempt.
C6_Witness ==
    /\ LoginAnswer /\ last.managed /\ last.auth.ok
    /\ Carried(jar[last.browser]) # {}
    /\ last.auth.val.state \notin Carried(jar[last.browser])
    /\ last.response.status = 303

(***************************************************************************)
(* C7: malformed callback query.  A callback request with no query string, *)
(* or with a query lacking code or lacking state, is Rejected with a 400;  *)
(* the handler has not touched the request's cookies, the response sets no *)
(* cookie, and neither exchange_code nor the Callback is invoked.  A query *)
(* with other parameters is handled exactly as the same query without      *)
(* them.                                                                   *)
(***************************************************************************)
Untouched(a) ==
    /\ a.handled.cookies = RequestCookies(a.cookies)
    /\ a.response.set_cookies = {}
    /\ JarAfter(a) = jar[a.browser]

C7_MalformedQuery ==
    (CallbackAnswer /\ last.managed) =>
        /\ (~last.query.some \/ ~last.query.has_code \/ ~last.query.has_state)
              => /\ Rejected(last)
                 /\ ~last.handled.matched
                 /\ NoExchange(last)
                 /\ NoCallback(last)
                 /\ Untouched(last)
        /\ last.query.extras
              => last.handled = redirect_handler(rocket.managed, RequestCookies(last.cookies),
                                                 Query(last.query.core), last.exch,
                                                 last.responder)

\* A query with the cookie's state and another parameter, but no code.
C7_Witness ==
    /\ CallbackAnswer /\ last.managed
    /\ last.query.has_state /\ ~last.query.has_code /\ last.query.extras
    /\ ~last.query.malformed
    /\ StateParam(last) \in Carried(last.cookies)
    /\ Rejected(last)

(***************************************************************************)
(* C8: wiring error.  A callback or login request that finds no OAuth2     *)
(* instance in managed state is answered with a 500, without a call of the *)
(* Adapter or the Callback and without a change of the request's cookies;  *)
(* with the instance present no request ends in a 500 without a call of    *)
(* the Adapter or the Callback.                                            *)
(***************************************************************************)
NoCalls(a) ==
    /\ a.handled.authorization_calls = <<>>
    /\ NoExchange(a)
    /\ NoCallback(a)

C8_WiringError ==
    (last.some /\ last.route \in {"callback", "login"}) =>
        /\ ~last.managed
              => /\ last.handled.outcome = Failure(500)
                 /\ last.response.status = 500
                 /\ NoCalls(last)
                 /\ Untouched(last)
        /\ last.managed
              => ~(last.response.status = 500 /\ NoCalls(last))

\* A callback with a matching state and cookie, answered with a 500 for the
\* missing instance.
C8_Witness ==
    /\ CallbackAnswer /\ ~last.managed
    /\ WellFormed(last)
    /\ last.response.status = 500

(***************************************************************************)
(* C9: configuration errors are fatal at startup.  When from_config fails  *)
(* for the Rocket configuration (no oauth table, no named entry, a missing *)
(* or non-string client_id, client_secret or redirect_uri, a missing or    *)
(* unresolvable provider) the attach fairing aborts the launch: no         *)
(* instance is managed, no route is mounted, and no request is ever        *)
(* handled; a launched Rocket manages the config from_config returned.     *)
(***************************************************************************)
C9_FatalConfigErrors ==
    LET config == from_config(rocket.config, args.config_name)
    IN  /\ rocket.config \in BadConfigs => ~config.ok
        /\ (rocket.phase # "ignite" /\ ~config.ok)
              => /\ rocket.phase = "aborted"
                 /\ rocket.managed = NoManaged
                 /\ rocket.routes = {}
        /\ rocket.phase # "launched"
              => /\ inflight = EmptyBag
                 /\ ~last.some
                 /\ \A b \in Browsers : jar[b] = {}
        /\ rocket.phase = "launched"
              => /\ config.ok
                 /\ rocket.managed.some
                 /\ rocket.managed.oauth2.config = config.val

\* The launch was aborted for a client_secret that is not a string.
C9_Witness ==
    /\ rocket.phase = "aborted"
    /\ rocket.config = WithEntry(Entry(Str("GitHub"), GoodId, Integer("7"), GoodRedirect))
    /\ rocket.routes = {}

(***************************************************************************)
(* C10 as the claim states it: the config of a mounted instance has        *)
(* non-empty client_id, client_secret and redirect_uri and a provider with *)
(* non-empty auth_uri and token_uri.                                       *)
(***************************************************************************)
C10_NonEmpty ==
    rocket.managed.some =>
        LET c == rocket.managed.oauth2.config
        IN  /\ c.client_id # ""
            /\ c.client_secret # ""
            /\ c.redirect_uri # ""
            /\ c.provider.auth_uri # ""
            /\ c.provider.token_uri # ""

(***************************************************************************)
(* C10, amended: the config of a mounted instance holds, for client_id,    *)
(* client_secret and redirect_uri, exactly the value configured under that *)
(* key, which is present and a string (possibly the empty one); its        *)
(* provider is the constant pair of the known provider named, or exactly   *)
(* the auth_uri and token_uri strings of the configured table.             *)
(***************************************************************************)
C10_AsConfigured ==
    rocket.managed.some =>
        LET c == rocket.managed.oauth2.config
            e == TableGet(TableGet(rocket.config, "oauth").tab, args.config_name).tab
            pv == TableGet(e, "provider")
        IN  /\ TableGet(e, "client_id") = Str(c.client_id)
            /\ TableGet(e, "client_secret") = Str(c.client_secret)
            /\ TableGet(e, "redirect_uri") = Str(c.redirect_uri)
            /\ pv.t \in {"string", "table"}
            /\ pv.t = "string" => <<pv.s, c.provider>> \in KnownProviders
            /\ pv.t = "table" =>
                  /\ TableGet(pv.tab, "auth_uri") = Str(c.provider.auth_uri)
                  /\ TableGet(pv.tab, "token_uri") = Str(c.provider.token_uri)

\* A mounted instance whose client_id, redirect_uri and auth_uri are empty.
C10_Witness ==
    /\ rocket.managed.some
    /\ rocket.managed.oauth2.config.client_id = ""
    /\ rocket.managed.oauth2.config.redirect_uri = ""
    /\ rocket.managed.oauth2.config.provider.auth_uri = ""

(***************************************************************************)
(* C11: provider registry round trip.  Each of the names Discord,          *)
(* Facebook, GitHub, Google, Reddit, Yahoo, spelled exactly so, resolves   *)
(* to that provider's constant (auth_uri, token_uri) pair; a table with    *)
(* string auth_uri and token_uri resolves to a Provider of exactly these   *)
(* two strings; any other string (another case included) is a              *)
(* configuration error, and the launch is aborted.                         *)
(***************************************************************************)
ExpectedProviders ==
    { <<"Discord", "https://discordapp.com/api/oauth2/authorize",
                   "https://discordapp.com/api/oauth2/token">>,
      <<"Facebook", "https://www.facebook.com/v3.1/dialog/oauth",
                    "https://graph.facebook.com/v3.1/oauth/access_token">>,
      <<"GitHub", "https://github.com/login/oauth/authorize",
                  "https://github.com/login/oauth/access_token">>,
      <<"Google", "https://accounts.google.com/o/oauth2/v2/auth",
                  "https://www.googleapis.com/oauth2/v4/token">>,
      <<"Reddit", "https://www.reddit.com/api/v1/authorize",
                  "https://www.reddit.com/api/v1/access_token">>,
      <<"Yahoo", "https://api.login.yahoo.com/oauth2/request_auth",
                 "https://api.login.yahoo.com/oauth2/get_token">> }

\* The value configured under provider in the named entry.
ConfiguredProvider ==
    TableGet(TableGet(TableGet(rocket.config, "oauth").tab, args.config_name).tab,
             "provider")

C11_ProviderRegistry ==
    LET pv == ConfiguredProvider
        r == from_config_value(pv)
    IN  /\ \A e \in ExpectedProviders :
              pv = Str(e[1]) => r = Ok([auth_uri |-> e[2], token_uri |-> e[3]])
        /\ (pv.t = "string" /\ \A e \in ExpectedProviders : pv.s # e[1])
              => ~r.ok /\ r.err.kind = "BadType" /\ r.err.key = "provider"
        /\ (pv.t = "table" /\ TableGet(pv.tab, "auth_uri").t = "string"
                           /\ TableGet(pv.tab, "token_uri").t = "string")
              => r = Ok([auth_uri |-> TableGet(pv.tab, "auth_uri").s,
                         token_uri |-> TableGet(pv.tab, "token_uri").s])
        /\ rocket.phase = "launched"
              => r.ok /\ rocket.managed.oauth2.config.provider = r.val
        /\ rocket.phase = "aborted" => ~r.ok /\ rocket.managed = NoManaged

\* Reddit was configured by name and the launched instance holds its pair.
C11_Witness ==
    /\ rocket.phase = "launched"
    /\ ConfiguredProvider = Str("Reddit")
    /\ rocket.managed.oauth2.config.provider.token_uri =
          "https://www.reddit.com/api/v1/access_token"

(***************************************************************************)
(* C12: no leak of the adapter's error.  When exchange_code returned an    *)
(* error, the response sent is the fixed 400 rejection, and it is the      *)
(* response the same request gets for every other error exchange_code may  *)
(* return.                                                                 *)
(***************************************************************************)
FixedRejection ==
    [status |-> 400, location |-> None, body |-> CatcherBody, set_cookies |-> {}]

C12_NoLeak ==
    (CallbackAnswer /\ last.managed /\ ~NoExchange(last) /\ ~last.exch.ok)
        => /\ last.response = FixedRejection
           /\ \A e \in AdapterErrors :
                 Respond(redirect_handler(rocket.managed, RequestCookies(last.cookies),
                                          Query(last.query.core), Err(e), Unasked))
                    = last.response

\* An exchange that timed out, answered with the rejection.
C12_Witness ==
    /\ CallbackAnswer /\ last.managed /\ last.handled.matched
    /\ last.exch = Err("timeout")
    /\ last.response = FixedRejection

(***************************************************************************)
(* C13 as the claim states it: of the callback requests of one login       *)
(* attempt that are in flight together (the same browser, the same state   *)
(* cookie), at most one passes state verification and reaches              *)
(* exchange_code: a request that another one of them has overtaken does    *)
(* not match.                                                              *)
(***************************************************************************)
C13_ConcurrentSingleUse ==
    (CallbackAnswer /\ last.managed /\ last.raced)
        => /\ ~last.handled.matched
           /\ NoExchange(last)

(***************************************************************************)
(* C14 as the claim states it: a callback that matched has the state       *)
(* cookie removed in the request's jar before exchange_code is called, and *)
(* when exchange_code or the Callback then fails the cookie stays removed: *)
(* the browser that received the answer stores no state cookie to retry    *)
(* with.                                                                   *)
(***************************************************************************)
C14_RetiredOnMatch ==
    (CallbackAnswer /\ last.managed /\ last.handled.matched)
        => /\ \E c \in last.handled.cookies.delta :
                 c.name = STATE_COOKIE_NAME /\ c.removal
           /\ last.handled.outcome.kind = "Failure"
                 => Carried(AfterAnswer) = {}

(***************************************************************************)
(* C15: Callback ordering.  A request invokes the Callback only after its  *)
(* state matched its cookie and exchange_code returned a token, the token  *)
(* the Callback is given; login requests invoke neither.  Over every       *)
(* sequence of requests the exchange_code invocations are as many as the   *)
(* successful state matches and the Callback invocations as many as the    *)
(* successful exchange_code returns (both differences are 0).              *)
(***************************************************************************)
C15_CallbackOrdering ==
    /\ drift = [exchange |-> 0, callback |-> 0]
    /\ (CallbackAnswer /\ ~NoCallback(last))
          => /\ WellFormed(last)
             /\ StateParam(last) \in Carried(last.cookies)
             /\ Len(last.handled.exchange_calls) = 1
             /\ last.exch.ok
             /\ last.handled.callback_calls = <<last.exch.val>>
    /\ (CallbackAnswer /\ ~NoExchange(last))
          => WellFormed(last) /\ StateParam(last) \in Carried(last.cookies)
    /\ LoginAnswer => NoExchange(last) /\ NoCallback(last)

\* A second callback of a browser that matched and reached the Callback.
C15_Witness ==
    /\ CallbackAnswer /\ last.replay
    /\ last.handled.callback_calls = <<"T1">>
    /\ drift = [exchange |-> 0, callback |-> 0]

(***************************************************************************)
(* C16: begin_login adapter failure.  When authorization_uri fails,        *)
(* get_redirect returns the Adapter's error and leaves the request's       *)
(* cookies as they were; the login route answers with a 500 (not a 400),   *)
(* without a redirect and without a Set-Cookie, and the browser keeps the  *)
(* cookies it had.                                                         *)
(***************************************************************************)
C16_LoginAdapterFailure ==
    (LoginAnswer /\ last.managed /\ ~last.auth.ok)
        => /\ LET g == get_redirect(rocket.managed.oauth2, RequestCookies(last.cookies),
                                    <<>>, last.auth)
              IN  g.result = last.auth /\ g.cookies = RequestCookies(last.cookies)
           /\ Len(last.handled.authorization_calls) = 1
           /\ last.handled.outcome = Failure(500)
           /\ last.response.status = 500
           /\ last.response.location = None
           /\ Untouched(last)

\* The login route fails for a browser that stores the state of an earlier
\* attempt.
C16_Witness ==
    /\ LoginAnswer /\ last.route = "login" /\ last.managed
    /\ last.auth = Err("denied")
    /\ Carried(jar[last.browser]) # {}
    /\ last.response.status = 500

(***************************************************************************)
(* C17: an empty state never matches.  No browser ever stores an empty     *)
(* state (the Adapter issues none), and a callback request whose state     *)
(* parameter is present and empty is Rejected without reaching             *)
(* exchange_code, whatever state cookie it carries.                        *)
(***************************************************************************)
C17_EmptyState ==
    /\ \A b \in Browsers : "" \notin Carried(jar[b])
    /\ (CallbackAnswer /\ last.managed /\ last.query.has_state /\ last.query.state = "")
          => /\ Rejected(last)
             /\ ~last.handled.matched
             /\ NoExchange(last)
             /\ NoCallback(last)

\* A request with a code, an empty state and the browser's state cookie.
C17_Witness ==
    /\ CallbackAnswer /\ last.managed /\ WellFormed(last)
    /\ last.query.state = ""
    /\ Carried(last.cookies) # {}
    /\ Rejected(last)

(***************************************************************************)
(* C18: login route mode.  In a launched Rocket the callback route is      *)
(* mounted at callback_uri, and the login route is mounted (at the login   *)
(* uri) if and only if a login pair was given to the fairing; the instance *)
(* holds the login's scopes as its default_scopes (none without a login).  *)
(* Every request to the login route calls authorization_uri exactly once   *)
(* with the instance's config and exactly these scopes in their order.  No *)
(* step after the launch changes the instance, the routes or the fairing's *)
(* arguments.                                                              *)
(***************************************************************************)
RoutesAsConfigured ==
    rocket.phase = "launched" =>
        /\ rocket.routes =
              {Route(args.callback_uri, "redirect_handler")} \cup
              {Route(args.login.uri, "login_handler") : x \in {y \in {0} : args.login.some}}
        /\ Mounted(rocket, "login_handler") <=> args.login.some
        /\ rocket.managed.some
        /\ rocket.managed.oauth2.default_scopes =
              (IF args.login.some THEN args.login.scopes ELSE <<>>)

LoginCallsWithDefaultScopes ==
    (last.some /\ last.route = "login" /\ last.managed)
        => last.handled.authorization_calls =
              <<[config |-> rocket.managed.oauth2.config, scopes |-> args.login.scopes]>>

C18_LoginRouteMode ==
    /\ [](RoutesAsConfigured /\ LoginCallsWithDefaultScopes)
    /\ [][rocket.phase = "launched" => (rocket' = rocket /\ args' = args)]_vars

\* A request to the login route that asked for the two configured scopes.
C18_Witness ==
    /\ last.some /\ last.route = "login" /\ last.managed
    /\ last.auth.ok
    /\ last.handled.authorization_calls[1].scopes = <<"user:email", "read">>
    /\ Carried(last.cookies) # {}

(***************************************************************************)
(* C19: a rejection does not consume the pending state.  A callback        *)
(* request Rejected at query parsing or at the cookie check (no cookie, or *)
(* another state) leaves the request's cookies untouched and sets no       *)
(* cookie: the browser stores what it stored, and a callback it sends next *)
(* with the state of its cookie still passes state verification and        *)
(* reaches exchange_code and the Callback.                                 *)
(***************************************************************************)
\* A callback of browser b with state s, sent with the cookies cs, is accepted.
StillAccepted(cs, uri, s) ==
    LET h == redirect_handler(rocket.managed,
                              RequestCookies(CookieHeader(cs, uri)),
                              Query(<<Item("code", "XYZ"), Item("state", s)>>),
                              Ok("T1"),
                              Ok([status |-> 200, location |-> None, body |-> "welcome"]))
    IN  /\ h.matched
        /\ Len(h.exchange_calls) = 1
        /\ h.callback_calls = <<"T1">>
        /\ h.outcome.kind = "Success"

C19_RejectionKeepsState ==
    (CallbackAnswer /\ last.managed /\ Rejected(last) /\ NoExchange(last))
        => /\ ~last.handled.matched
           /\ Untouched(last)
           /\ Carried(AfterAnswer) = Carried(jar[last.browser])
           /\ \A s \in Carried(CookieHeader(jar[last.browser], last.uri)) :
                 StillAccepted(AfterAnswer, last.uri, s)

\* A callback with another state than the cookie's was rejected, and the
\* browser keeps its cookie.
C19_Witness ==
    /\ CallbackAnswer /\ last.managed /\ WellFormed(last)
    /\ Carried(last.cookies) = {"S1"}
    /\ StateParam(last) = "S2"
    /\ Rejected(last)
    /\ Carried(AfterAnswer) = {"S1"}

(***************************************************************************)
(* C20: the latest login attempt wins.  A browser stores at most one state *)
(* cookie; a successful begin_login leaves it holding exactly the state    *)
(* just issued; a callback request carries at most one state, matches      *)
(* exactly when its state parameter is that one, and a callback with a     *)
(* state issued to the browser earlier and since replaced is Rejected.     *)
(***************************************************************************)
\* The request's state was issued to its browser, which has sent another.
Superseded(a) ==
    /\ WellFormed(a)
    /\ StateParam(a) \in AdapterStates
    /\ owner[StateParam(a)] = a.browser
    /\ Carried(a.cookies) # {}
    /\ StateParam(a) \notin Carried(a.cookies)

C20_LatestLoginWins ==
    /\ \A b \in Browsers :
          Cardinality({c \in jar[b] : c.name = STATE_COOKIE_NAME}) <= 1
    /\ (LoginAnswer /\ last.managed /\ last.auth.ok)
          => /\ Carried(AfterAnswer) = {last.auth.val.state}
             /\ Cardinality({c \in AfterAnswer : c.name = STATE_COOKIE_NAME}) = 1
    /\ (CallbackAnswer /\ last.managed)
          => /\ Cardinality(Carried(last.cookies)) <= 1
             /\ WellFormed(last)
                   => (last.handled.matched <=> Carried(last.cookies) = {StateParam(last)})
             /\ Superseded(last) => Rejected(last) /\ NoExchange(last)

\* S1 was issued to the browser and replaced by S2: a callback with S1 is
\* rejected.
C20_Witness ==
    /\ CallbackAnswer /\ last.managed /\ Superseded(last)
    /\ StateParam(last) = "S1"
    /\ Carried(last.cookies) = {"S2"}
    /\ Carried(jar[last.browser]) = {"S2"}
    /\ Rejected(last)

====
